---- MODULE Spec2Model ----
(***************************************************************************)
(* Parallelization contracts of timely dataflow (dataflow/channels/pact.rs)*)
(* Pipeline, Exchange and TimeExchange build a send endpoint and a receive *)
(* endpoint out of the wrappers Pusher and Puller, which frame (time,data) *)
(* pairs as Message(time, data, from, seq), log a MessagesEvent per frame  *)
(* and hand the frames to the raw endpoints of the allocator.              *)
(***************************************************************************)
EXTENDS Integers, Sequences, FiniteSets, TLC

\* ---------------------------------------------------------------- bounds
\* workers of the allocator: peers in 1..MaxPeers
MaxPeers == 2
\* present-value pushes made in one run, over all workers
MaxPush == 2
\* empty-slot pushes made in one run, over all workers
MaxFlush == 1
\* pulls made in one run that find the raw endpoint empty
MaxPull == 1
\* timestamps 1..MaxTime
MaxTime == 2
\* records per pushed batch
MaxLen == 2
\* values the user's hash function returns: 0..MaxHash
MaxHash == 1
\* channel identifiers 1..MaxChannel
MaxChannel == 2

\* --------------------------------------------------------------- options
None == << >>
Some(x) == << x >>
Unwrap(o) == o[1]

\* ------------------------------------------------------------ input sets
Times == 1..MaxTime

\* Content<D>: a batch of records; the batches pushed here are the records
\* 0, 1, ... in order, one batch of each length.
Contents == { [i \in 1..n |-> i - 1] : n \in 1..MaxLen }

Contracts == {"Pipeline", "Exchange", "TimeExchange"}

VARIABLES
  contract,     \* the pact that was connected
  peers,        \* number of workers of the allocator
  identifier,   \* the identifier passed to connect
  hash_func,    \* the user's hash function, on the arguments it was applied to
  pusher,       \* link <<s, t>> -> Pusher {channel, counter, source, target}
  puller,       \* worker -> Puller {current, channel, counter, index}
  queue,        \* link <<s, t>> -> frames in transit in the raw channel
  recycle,      \* worker -> frames swapped back into the raw receive endpoint
  done_calls,   \* link -> number of done() calls on the raw send endpoint
  pair,         \* worker -> the caller's slot after its last push
  log,          \* the MessagesEvent's logged so far, in order
  pushed,       \* history: the present values pushed, in order
  pulled,       \* history: worker -> the values its pulls returned, in order
  empty_pushes  \* history: link -> empty slots pushed into its Pusher

vars == << contract, peers, identifier, hash_func, pusher, puller, queue,
           recycle, done_calls, pair, log, pushed, pulled,
           empty_pushes >>

Workers == 0..(peers - 1)

\* The raw endpoints a contract allocates: Thread::new gives one loopback
\* pair per worker, allocator.allocate one sender per destination worker.
Links ==
  IF contract = "Pipeline"
    THEN { << w, w >> : w \in Workers }
    ELSE Workers \X Workers

\* Message::new(time, data, from, seq)
Message(time, data, from, seq) ==
  [time |-> time, data |-> data, from |-> from, seq |-> seq]

\* ::logging::MessagesEvent
MessagesEvent(is_send, channel, source, target, seq_no, length) ==
  [is_send |-> is_send, channel |-> channel, source |-> source,
   target |-> target, seq_no |-> seq_no, length |-> length]

\* Mutant of PusherNew: the sequence counter starts at 1.
PusherNewFromOne(source, target, channel) ==
  [channel |-> channel, counter |-> 1, source |-> source, target |-> target]

\* Mutant of PusherNew: channel and target are taken in the wrong order.
PusherNewSwapped(source, target, channel) ==
  [channel |-> target, counter |-> 0, source |-> source, target |-> channel]

\* Pusher::new(pusher, source, target, channel)
PusherNew(source, target, channel) ==
  [channel |-> channel, counter |-> 0, source |-> source, target |-> target]

\* Mutant of PullerNew: index and channel are taken in the wrong order.
PullerNewSwapped(index, channel) ==
  [current |-> None, channel |-> index, counter |-> 0, index |-> channel]

\* Puller::new(puller, index, channel)
PullerNew(index, channel) ==
  [current |-> None, channel |-> channel, counter |-> 0, index |-> index]

\* connect: Pipeline stamps source = target = allocator.index();
\* Exchange and TimeExchange enumerate the senders, target = i.
Connect(c, n, id) ==
  /\ contract = c
  /\ peers = n
  /\ identifier = id
  /\ hash_func = << >>
  /\ pusher = [l \in Links |-> PusherNew(l[1], l[2], id)]
  /\ puller = [w \in Workers |-> PullerNew(w, id)]
  /\ queue = [l \in Links |-> << >>]
  /\ recycle = [w \in Workers |-> << >>]
  /\ done_calls = [l \in Links |-> 0]
  /\ pair = [w \in Workers |-> None]
  /\ log = << >>
  /\ pushed = << >>
  /\ pulled = [w \in Workers |-> << >>]
  /\ empty_pushes = [l \in Links |-> 0]

Init ==
  \E c \in Contracts, n \in 1..MaxPeers, id \in 1..MaxChannel :
    Connect(c, n, id)

\* ------------------------------------------------------------ Pusher::push
\* Mutant of SendEvent: the event is logged after the increment.
SendEventAfter(p, data) ==
  MessagesEvent(TRUE, p.channel, p.source, p.target, p.counter + 1, Len(data))

\* The MessagesEvent logged by a push of a present value.
SendEvent(p, data) ==
  MessagesEvent(TRUE, p.channel, p.source, p.target, p.counter, Len(data))

\* Mutant of PusherMessage: the frame carries the first record only.
PusherMessageSplit(p, time, data) ==
  Message(time, SubSeq(data, 1, 1), p.source, p.counter)

\* Mutant of PusherMessage: the frame is stamped after the increment.
PusherMessageLate(p, time, data) == Message(time, data, p.source, p.counter + 1)

\* let mut message = Some(Message::new(time, data, self.source, self.counter))
PusherMessage(p, time, data) == Message(time, data, p.source, p.counter)

\* Mutant of PusherAdvance: the increment is forgotten.
PusherAdvanceStuck(p) == p

\* self.counter += 1
PusherAdvance(p) == [p EXCEPT !.counter = @ + 1]

\* Mutant of PairOf: the slot gets the time with a cleared batch.
PairOfEmpty(message) ==
  IF message = None
    THEN None
    ELSE Some([time |-> Unwrap(message).time, data |-> << >>])

\* Mutant of PairOf: the unwrapped batch loses its last record.
PairOfShort(message) ==
  IF message = None
    THEN None
    ELSE Some([time |-> Unwrap(message).time,
               data |-> SubSeq(Unwrap(message).data, 1,
                               Len(Unwrap(message).data) - 1)])

\* *pair = message.map(|x| (x.time, x.data))
\* self.current = previous.map(|message| (message.time, message.data))
PairOf(message) ==
  IF message = None
    THEN None
    ELSE Some([time |-> Unwrap(message).time, data |-> Unwrap(message).data])

\* The raw send endpoint takes the frame into its FIFO channel.
RawPush(q, m) == Append(q, m)

\* What the raw send endpoint leaves in the message slot: nothing, or
\* (reuse) a frame that the receiver handed back.
RawHandBack(t, reuse) ==
  IF reuse /\ recycle[t] # << >> THEN Some(Head(recycle[t])) ELSE None

\* Pusher::push(&mut Some((time, data))) on the wrapper of link l.
PusherPushSome(l, time, data, reuse) ==
  LET p == pusher[l]
      message == PusherMessage(p, time, data)
      left == RawHandBack(l[2], reuse)
  IN  /\ log' = Append(log, SendEvent(p, data))
      /\ pusher' = [pusher EXCEPT ![l] = PusherAdvance(p)]
      /\ queue' = [queue EXCEPT ![l] = RawPush(@, message)]
      /\ recycle' = [recycle EXCEPT ![l[2]] =
                       IF left = None THEN @ ELSE Tail(@)]
      /\ pair' = [pair EXCEPT ![l[1]] = PairOf(left)]
      /\ pushed' = Append(pushed,
                     [source |-> l[1], target |-> l[2], time |-> time,
                      data |-> data, seq |-> message.seq])
      /\ UNCHANGED << puller, done_calls, pulled, empty_pushes >>

\* Mutant of PusherDone: the empty slot is swallowed, done() is not called.
PusherDoneNever(n) == n

\* else { self.pusher.done(); }: n done() calls were made before
PusherDone(n) == n + 1

\* Pusher::push(&mut None) on the wrappers of the links ls
PusherPushNone(s, ls) ==
  /\ done_calls' = [l \in Links |->
                      IF l \in ls THEN PusherDone(done_calls[l]) ELSE done_calls[l]]
  /\ empty_pushes' = [l \in Links |->
                        IF l \in ls THEN empty_pushes[l] + 1 ELSE empty_pushes[l]]
  /\ pair' = [pair EXCEPT ![s] = None]
  /\ UNCHANGED << pusher, puller, queue, recycle, log, pushed,
                  pulled >>

\* --------------------------------------------------- the send endpoints
\* Mutant of HashKey: TimeExchange drops the time, as Exchange does.
HashKeyUntimed(time, data) == data

\* Mutant of HashKey: Exchange passes the time to the hash function too.
HashKeyTimed(time, data) == << time, data >>

\* Exchange::connect hands ExchangePusher the closure |_, d| hash_func(d);
\* TimeExchange::connect hands it hash_func itself.
HashKey(time, data) ==
  IF contract = "Exchange" THEN data ELSE << time, data >>

\* The fan-out endpoint forwards a pushed batch to the wrapper of
\* destination hash mod N.
ExchangeTarget(h) == h % peers

\* A push of a present value by worker s into its send endpoint.
Push(s, time, data, reuse, h) ==
  /\ IF contract = "Pipeline"
       THEN /\ h = 0
            /\ PusherPushSome(<< s, s >>, time, data, reuse)
            /\ UNCHANGED hash_func
       ELSE LET k == HashKey(time, data)
            IN  /\ k \in DOMAIN hash_func => h = hash_func[k]
                /\ hash_func' = IF k \in DOMAIN hash_func
                                  THEN hash_func
                                  ELSE (k :> h) @@ hash_func
                /\ PusherPushSome(<< s, ExchangeTarget(h) >>, time, data, reuse)
  /\ UNCHANGED << contract, peers, identifier >>

\* The empty slots pushed so far by the workers of S.
RECURSIVE Flushes(_)
Flushes(S) ==
  IF S = {} THEN 0
  ELSE LET w == CHOOSE x \in S : TRUE
       IN  empty_pushes[<< w, w >>] + Flushes(S \ {w})

\* A push of an empty slot by worker s into its send endpoint.
Flush(s) ==
  /\ Flushes(Workers) < MaxFlush
  /\ PusherPushNone(s, { l \in Links : l[1] = s })
  /\ UNCHANGED << contract, peers, identifier, hash_func >>

\* ------------------------------------------------------------ Puller::pull
\* Mutant of PullerPrevious: the value still held is dropped, not wrapped.
PullerPreviousDropped(pl) == None

\* let mut previous = self.current.take().map(|(time, data)|
\*     Message::new(time, data, self.index, self.counter))
PullerPrevious(pl) ==
  IF pl.current = None
    THEN None
    ELSE Some(Message(Unwrap(pl.current).time, Unwrap(pl.current).data,
                      pl.index, pl.counter))

\* Mutant of RecvEvent: source and target are exchanged.
RecvEventSwapped(pl, message) ==
  MessagesEvent(FALSE, pl.channel, pl.index, message.from, message.seq,
                Len(message.data))

\* Mutant of RecvEvent: the event carries the local pull counter.
RecvEventLocal(pl, message) ==
  MessagesEvent(FALSE, pl.channel, message.from, pl.index, pl.counter,
                Len(message.data))

\* The MessagesEvent logged by a pull that finds a frame.
RecvEvent(pl, message) ==
  MessagesEvent(FALSE, pl.channel, message.from, pl.index, message.seq,
                Len(message.data))

\* Mutant of PullerAfter: a pull that finds nothing keeps the value held.
PullerAfterStale(pl, incoming) ==
  [pl EXCEPT !.counter = @ + 1,
             !.current = IF incoming = None THEN @ ELSE PairOf(incoming)]

\* Mutant of PullerAfter: a value still held is kept, the frame dropped.
PullerAfterKeep(pl, incoming) ==
  [pl EXCEPT !.counter = @ + 1,
             !.current = IF incoming # None /\ @ # None THEN @ ELSE PairOf(incoming)]

\* self.counter += 1; ...; self.current = previous.map(|m| (m.time, m.data))
PullerAfter(pl, incoming) ==
  [pl EXCEPT !.counter = @ + 1, !.current = PairOf(incoming)]

\* History of a pull: the slot it returns, with the frame's from and seq.
Returned(pl, incoming) ==
  IF incoming = None
    THEN None
    ELSE Some([time |-> Unwrap(PullerAfter(pl, incoming).current).time,
               data |-> Unwrap(PullerAfter(pl, incoming).current).data,
               from |-> Unwrap(incoming).from,
               seq |-> Unwrap(incoming).seq])

\* The raw receive endpoint takes the next frame of a FIFO channel.
RawNext(q) == Head(q)
RawRest(q) == Tail(q)

\* ::std::mem::swap(&mut previous, self.puller.pull()): the raw receive
\* endpoint gets the frame handed back, and keeps it for reuse.
RawSwapIn(q, previous) ==
  IF previous = None THEN q ELSE Append(q, Unwrap(previous))

\* Puller::pull on worker w, the raw endpoint offering incoming.
PullerPull(w, incoming) ==
  LET pl == puller[w]
      previous == PullerPrevious(pl)
  IN  /\ recycle' = [recycle EXCEPT ![w] = RawSwapIn(@, previous)]
      /\ log' = IF incoming = None
                  THEN log
                  ELSE Append(log, RecvEvent(pl, Unwrap(incoming)))
      /\ puller' = [puller EXCEPT ![w] = PullerAfter(pl, incoming)]
      /\ pulled' = [pulled EXCEPT ![w] = Append(@, Returned(pl, incoming))]
      /\ UNCHANGED << pusher, done_calls, pair, pushed, empty_pushes,
                      contract, peers, identifier, hash_func >>

\* A pull by worker w that finds a frame sent by worker s.
PullFrame(w, s) ==
  /\ << s, w >> \in Links
  /\ queue[<< s, w >>] # << >>
  /\ queue' = [queue EXCEPT ![<< s, w >>] = RawRest(@)]
  /\ PullerPull(w, Some(RawNext(queue[<< s, w >>])))

\* The pulls made so far that found the raw endpoint empty.
EmptyPulls ==
  Cardinality({ x \in Workers \X (1..(Len(pushed) + MaxPull)) :
                  x[2] <= Len(pulled[x[1]]) /\ pulled[x[1]][x[2]] = None })

\* A pull by worker w that finds the raw endpoint empty.
PullEmpty(w) ==
  /\ \A s \in Workers : << s, w >> \in Links => queue[<< s, w >>] = << >>
  /\ EmptyPulls < MaxPull
  /\ UNCHANGED queue
  /\ PullerPull(w, None)

\* ----------------------------------------------- the caller of pull
\* The caller takes the value out of the slot pull returned.
CallerTake(w) ==
  /\ puller[w].current # None
  /\ puller' = [puller EXCEPT ![w].current = None]
  /\ UNCHANGED << contract, peers, identifier, hash_func, pusher, queue,
                  recycle, done_calls, pair, log, pushed,
                  pulled, empty_pushes >>

\* The caller drains the batch and leaves the emptied buffer in the slot.
CallerDrain(w) ==
  /\ puller[w].current # None
  /\ Unwrap(puller[w].current).data # << >>
  /\ puller' = [puller EXCEPT ![w].current =
                  Some([time |-> Unwrap(@).time, data |-> << >>])]
  /\ UNCHANGED << contract, peers, identifier, hash_func, pusher, queue,
                  recycle, done_calls, pair, log, pushed,
                  pulled, empty_pushes >>

Next ==
  \/ /\ Len(pushed) < MaxPush
     /\ \E s \in Workers, time \in Times, data \in Contents,
           reuse \in BOOLEAN, h \in 0..MaxHash :
          Push(s, time, data, reuse, h)
  \/ \E s \in Workers : Flush(s)
  \/ \E w \in Workers, s \in Workers : PullFrame(w, s)
  \/ \E w \in Workers : PullEmpty(w)
  \/ \E w \in Workers : CallerTake(w)
  \/ \E w \in Workers : CallerDrain(w)

Spec == Init /\ [][Next]_vars

\* ------------------------------------------------------------------
\* The Hash-Exchange scenario of the specification: three workers, the
\* hash of a one-record batch is its record, and worker 0 pushes the
\* records 0..5 in order, one record per batch, all at time 1.
ScenarioInit == Connect("Exchange", 3, 1)

ScenarioPush ==
  /\ Len(pushed) < 6
  /\ Push(0, 1, << Len(pushed) >>, FALSE, Len(pushed))

ScenarioNext ==
  \/ ScenarioPush
  \/ \E w \in Workers : PullFrame(w, 0)

ScenarioSpec == ScenarioInit /\ [][ScenarioNext]_vars

\* =================================================================
\* Helpers of the properties
\* =================================================================
\* Sum of the batch lengths of the entries of sequence q stamped with time T.
RECURSIVE LengthAt(_, _)
LengthAt(q, T) ==
  IF q = << >> THEN 0
  ELSE (IF Head(q).time = T THEN Len(Head(q).data) ELSE 0) + LengthAt(Tail(q), T)

\* The values the pulls of worker w returned (empty results left out).
RECURSIVE Values(_)
Values(q) ==
  IF q = << >> THEN << >>
  ELSE IF Head(q) = None THEN Values(Tail(q))
       ELSE << Unwrap(Head(q)) >> \o Values(Tail(q))

\* Sum of f over the finite set S.
RECURSIVE SumOver(_, _)
SumOver(f, S) ==
  IF S = {} THEN 0
  ELSE LET x == CHOOSE y \in S : TRUE IN f[x] + SumOver(f, S \ {x})

PushedAt(T) == LengthAt(pushed, T)
PulledAt(T) == SumOver([w \in Workers |-> LengthAt(Values(pulled[w]), T)], Workers)
InTransitAt(T) == SumOver([l \in Links |-> LengthAt(queue[l], T)], Links)
Drained == \A l \in Links : queue[l] = << >>

\* C1: record-count invariance. For every contract and every timestamp T,
\* the batch lengths already returned by pull at T over all receive
\* endpoints plus the lengths of the frames still in the raw queues at T
\* equal the lengths pushed at T; once the queues are drained the pulled
\* lengths at T equal the pushed lengths at T.
C1_RecordCount ==
  \A T \in Times :
    /\ PulledAt(T) + InTransitAt(T) = PushedAt(T)
    /\ Drained => PulledAt(T) = PushedAt(T)

\* Two batches of different lengths pushed at different times, both pulled.
C1_Witness ==
  /\ Len(pushed) = 2
  /\ pushed[1].time # pushed[2].time
  /\ Len(pushed[1].data) # Len(pushed[2].data)
  /\ Drained
  /\ PulledAt(pushed[1].time) > 0
  /\ PulledAt(pushed[2].time) > 0

\* ------------------------------------------------------------------
\* The receivers keep calling pull: a frame in a raw queue is pulled.
PullSomeFrame == \E w \in Workers, s \in Workers : PullFrame(w, s)

FairSpec == Spec /\ WF_vars(PullSomeFrame)

\* The positions of the pull histories.
PullSlots ==
  { x \in Workers \X (1..(Len(pushed) + MaxPull)) : x[2] <= Len(pulled[x[1]]) }

\* Pull x = (worker, position) returned the i-th pushed value: the frame of
\* that push (its source and sequence number on the link to this worker)
\* with the pushed time and batch.
Returns(x, i) ==
  /\ pulled[x[1]][x[2]] # None
  /\ x[1] = pushed[i].target
  /\ Unwrap(pulled[x[1]][x[2]]).from = pushed[i].source
  /\ Unwrap(pulled[x[1]][x[2]]).seq = pushed[i].seq
  /\ Unwrap(pulled[x[1]][x[2]]).time = pushed[i].time
  /\ Unwrap(pulled[x[1]][x[2]]).data = pushed[i].data

Deliveries(i) == { x \in PullSlots : Returns(x, i) }
IsDelivered(i) == Deliveries(i) # {}
AllDelivered == \A i \in 1..Len(pushed) : IsDelivered(i)

\* No pushed value was returned twice, and every value a pull returned is
\* a pushed value, returned by the receive endpoint of its target.
AtMostOnce ==
  /\ \A i \in 1..Len(pushed) : Cardinality(Deliveries(i)) <= 1
  /\ \A x \in PullSlots :
       pulled[x[1]][x[2]] # None => \E i \in 1..Len(pushed) : Returns(x, i)

\* C2: exactly-once eventual delivery. With a FIFO lossless raw channel and
\* receivers that keep pulling, every pushed (time, batch) is eventually
\* returned by a pull of the receive endpoint of its target worker; it is
\* never returned by two pulls, and no pull on any endpoint returns a value
\* other than a pushed value routed to that endpoint.
C2_ExactlyOnce == [] AtMostOnce /\ []<> AllDelivered

\* Both pushed values have been returned, by different receive endpoints.
C2_Witness ==
  /\ Len(pushed) = 2
  /\ IsDelivered(1)
  /\ IsDelivered(2)
  /\ pushed[1].target # pushed[2].target

\* ------------------------------------------------------------------
\* The seq_no's of the receive events of endpoint w for source s, in order.
RECURSIVE RecvSeqNos(_, _, _)
RecvSeqNos(events, s, w) ==
  IF events = << >> THEN << >>
  ELSE (IF ~Head(events).is_send /\ Head(events).source = s
              /\ Head(events).target = w
          THEN << Head(events).seq_no >> ELSE << >>)
       \o RecvSeqNos(Tail(events), s, w)

\* C3: FIFO per source. Under any interleaving of pushes and pulls, the
\* seq_no's of the receive events of one receive endpoint for one source
\* are 0, 1, 2, ... in that order: increasing, no repeats, no gaps.
C3_FifoPerSource ==
  \A s \in Workers, w \in Workers :
    \A i \in 1..Len(RecvSeqNos(log, s, w)) : RecvSeqNos(log, s, w)[i] = i - 1

\* A receive endpoint has logged two frames of one source.
C3_Witness ==
  \E s \in Workers, w \in Workers : Len(RecvSeqNos(log, s, w)) = 2

\* ------------------------------------------------------------------
\* The values worker s pushed, in order.
RECURSIVE PushedBy(_, _)
PushedBy(q, s) ==
  IF q = << >> THEN << >>
  ELSE (IF Head(q).source = s THEN << Head(q) >> ELSE << >>)
       \o PushedBy(Tail(q), s)

\* Pipeline: what the pulls of worker w returned is a prefix of what w
\* pushed, time and batch unchanged, frames numbered 0, 1, ... from w.
PipelineOrder(w) ==
  LET got == Values(pulled[w])
      sent == PushedBy(pushed, w)
  IN  /\ Len(got) <= Len(sent)
      /\ \A j \in 1..Len(got) :
           /\ got[j].time = sent[j].time
           /\ got[j].data = sent[j].data
           /\ got[j].seq = j - 1
           /\ got[j].from = w

\* A pull of worker w returns an empty slot exactly when every value w
\* pushed has already been returned.
PipelineEmpty(w) ==
  Len(pulled'[w]) = Len(pulled[w]) + 1 =>
    (pulled'[w][Len(pulled'[w])] = None
       <=> Len(Values(pulled[w])) = Len(PushedBy(pushed, w)))

\* C4: delivery order is send order on the Pipeline contract. The non-empty
\* values returned by successive pulls are the pushed (time, batch) values
\* in push order, unchanged, carried by frames with seq 0, 1, 2, ... and
\* source = this worker; a pull returns an empty slot exactly when every
\* pushed value has been returned.
C4_PipelineOrder ==
  /\ [](contract = "Pipeline" => \A w \in Workers : PipelineOrder(w))
  /\ [][contract = "Pipeline" => \A w \in Workers : PipelineEmpty(w)]_vars

\* The scenario of the specification: two values pushed at one time, then
\* an empty slot; the pulls returned the two values, then an empty slot.
C4_Witness ==
  /\ contract = "Pipeline"
  /\ \E w \in Workers :
       /\ Len(PushedBy(pushed, w)) = 2
       /\ pushed[1].time = pushed[2].time
       /\ pushed[1].data # pushed[2].data
       /\ empty_pushes[<< w, w >>] = 1
       /\ Len(pulled[w]) = 3
       /\ pulled[w][1] # None /\ pulled[w][2] # None /\ pulled[w][3] = None

\* ------------------------------------------------------------------
\* The destination of data under the hash function of the Exchange pact.
HashDest(data) == hash_func[data] % peers

\* C5: Hash-Exchange routing. With N workers and the user's hash function,
\* every pushed datum d is sent to, and returned only by the receive
\* endpoint of, worker hash(d) mod N; so two pushes whose data have the
\* same hash mod N are observed at the same worker.
C5_HashRouting ==
  contract = "Exchange" =>
    /\ \A i \in 1..Len(pushed) :
         /\ pushed[i].data \in DOMAIN hash_func
         /\ pushed[i].target = HashDest(pushed[i].data)
    /\ \A l \in Links : \A i \in 1..Len(queue[l]) :
         /\ queue[l][i].data \in DOMAIN hash_func
         /\ l[2] = HashDest(queue[l][i].data)
    /\ \A x \in PullSlots :
         pulled[x[1]][x[2]] # None =>
           /\ Unwrap(pulled[x[1]][x[2]]).data \in DOMAIN hash_func
           /\ x[1] = HashDest(Unwrap(pulled[x[1]][x[2]]).data)

\* Two workers; the same datum pushed at two different times by two
\* different workers, and both returned by pulls of the same worker,
\* which is not worker 0.
C5_Witness ==
  /\ contract = "Exchange"
  /\ peers = 2
  /\ Len(pushed) = 2
  /\ pushed[1].data = pushed[2].data
  /\ pushed[1].time # pushed[2].time
  /\ pushed[1].source # pushed[2].source
  /\ pushed[1].target = 1
  /\ Len(Values(pulled[1])) = 2

\* C5, the scenario (under ScenarioSpec): with N = 3 and hash(d) = d, the
\* records 0..5 pushed one per batch are returned by worker 0 as 0 then 3,
\* by worker 1 as 1 then 4, by worker 2 as 2 then 5.
C5_Scenario ==
  \A w \in Workers :
    \A j \in 1..Len(Values(pulled[w])) :
      Values(pulled[w])[j].data = << w + 3 * (j - 1) >>

C5_ScenarioWitness ==
  \A w \in Workers : Len(Values(pulled[w])) = 2

\* ------------------------------------------------------------------
\* The frames of the i-th pushed batch: the places (a position of a raw
\* queue, or a pull) that hold a frame with its source and sequence
\* number on a link out of its source.
QueuePlaces(i) ==
  { x \in Links \X (1..Len(pushed)) :
      /\ x[2] <= Len(queue[x[1]])
      /\ x[1][1] = pushed[i].source
      /\ queue[x[1]][x[2]].seq = pushed[i].seq
      /\ x[1][2] = pushed[i].target }

\* Frame f at worker w is the whole i-th pushed batch.
WholeBatch(f, w, i) ==
  /\ f.from = pushed[i].source
  /\ f.seq = pushed[i].seq
  /\ w = pushed[i].target
  /\ f.time = pushed[i].time
  /\ f.data = pushed[i].data

C7_FlushPropagation ==
  [][\A l \in Links :
       /\ empty_pushes'[l] = empty_pushes[l] + 1 =>
            /\ done_calls'[l] = done_calls[l] + 1
            /\ queue' = queue
            /\ log' = log
            /\ pusher' = pusher
            /\ pushed' = pushed
            /\ pair'[l[1]] = None
       /\ empty_pushes'[l] = empty_pushes[l] =>
            done_calls'[l] = done_calls[l]]_vars

\* An empty slot was pushed into a wrapper that had sent a frame before.
C7_Witness ==
  \E l \in Links :
    /\ empty_pushes[l] = 1
    /\ done_calls[l] = 1
    /\ pusher[l].counter > 0
    /\ queue[l] # << >>

\* ------------------------------------------------------------------
\* The send events of the log, in order.
RECURSIVE SendEvents(_)
SendEvents(events) ==
  IF events = << >> THEN << >>
  ELSE (IF Head(events).is_send THEN << Head(events) >> ELSE << >>)
       \o SendEvents(Tail(events))

\* The present-value pushes made on the link of the i-th push before it.
EarlierPushes(i) ==
  Cardinality({ j \in 1..(i - 1) :
                  /\ pushed[j].source = pushed[i].source
                  /\ pushed[j].target = pushed[i].target })

\* The frames forwarded on link l: in its raw queue or pulled from it.
Forwarded(l) ==
  Len(queue[l])
    + Cardinality({ x \in PullSlots :
                      /\ x[1] = l[2]
                      /\ pulled[x[1]][x[2]] # None
                      /\ Unwrap(pulled[x[1]][x[2]]).from = l[1] })

\* C8: send telemetry. Every push of a present value logs exactly one send
\* event, whether or not the raw endpoint hands a frame back: is_send =
\* true, the endpoint's channel, source and target, length = the length of
\* the pushed batch, seq_no = the number of earlier present-value pushes
\* on that send endpoint = the seq of the frame forwarded by that call;
\* after k such pushes an endpoint has forwarded exactly k frames.
C8_SendTelemetry ==
  /\ Len(SendEvents(log)) = Len(pushed)
  /\ \A i \in 1..Len(pushed) :
       /\ SendEvents(log)[i] =
            MessagesEvent(TRUE, identifier, pushed[i].source, pushed[i].target,
                          EarlierPushes(i), Len(pushed[i].data))
       /\ pushed[i].seq = EarlierPushes(i)
  /\ \A l \in Links :
       /\ Forwarded(l) = pusher[l].counter
       /\ pusher[l].counter =
            Cardinality({ i \in 1..Len(pushed) :
                            pushed[i].source = l[1] /\ pushed[i].target = l[2] })

\* Two pushes on one send endpoint, the second of which was handed a frame
\* back by the raw endpoint.
C8_Witness ==
  \E l \in Links :
    /\ pusher[l].counter = 2
    /\ pair[l[1]] # None
    /\ Len(SendEvents(log)) = 2

\* ------------------------------------------------------------------
\* The receive events of the log with target w, in order.
RECURSIVE RecvEvents(_, _)
RecvEvents(events, w) ==
  IF events = << >> THEN << >>
  ELSE (IF ~Head(events).is_send /\ Head(events).target = w
          THEN << Head(events) >> ELSE << >>)
       \o RecvEvents(Tail(events), w)

RECURSIVE AllRecvEvents(_)
AllRecvEvents(events) ==
  IF events = << >> THEN << >>
  ELSE (IF ~Head(events).is_send THEN << Head(events) >> ELSE << >>)
       \o AllRecvEvents(Tail(events))

\* C9: receive telemetry. A pull logs exactly one receive event when the
\* raw endpoint holds a frame and none when it holds nothing: the receive
\* events of an endpoint are, in order, one per value its pulls returned,
\* with is_send = false, target = the receiver's index, source = the
\* frame's from, seq_no = the frame's seq and length = the frame's batch
\* length; the local pull counter appears in none of them.
C9_RecvTelemetry ==
  /\ \A w \in Workers :
       /\ Len(RecvEvents(log, w)) = Len(Values(pulled[w]))
       /\ \A j \in 1..Len(Values(pulled[w])) :
            RecvEvents(log, w)[j] =
              MessagesEvent(FALSE, identifier, Values(pulled[w])[j].from,
                            puller[w].index, Values(pulled[w])[j].seq,
                            Len(Values(pulled[w])[j].data))
  /\ Len(AllRecvEvents(log)) =
       SumOver([w \in Workers |-> Len(Values(pulled[w]))], Workers)

\* A pull that found nothing, then a pull that found the first frame of a
\* source: the local counter was 1 when the frame with seq 0 was logged.
C9_Witness ==
  \E w \in Workers :
    /\ Len(pulled[w]) = 2
    /\ pulled[w][1] = None
    /\ pulled[w][2] # None
    /\ Unwrap(pulled[w][2]).seq = 0
    /\ Len(RecvEvents(log, w)) = 1

\* ------------------------------------------------------------------
\* The channel is fixed, and is in every logged event.
ChannelFixed ==
  /\ \A l \in Links : pusher[l].channel = identifier
  /\ \A w \in Workers : puller[w].channel = identifier
  /\ \A i \in 1..Len(log) : log[i].channel = identifier

\* C10 as stated: the channel identifier given to connect never changes
\* and is in every framed message on the raw channel and in every send and
\* receive event.
C10_ChannelInFrames ==
  /\ ChannelFixed
  /\ \A l \in Links : \A i \in 1..Len(queue[l]) :
       /\ "channel" \in DOMAIN queue[l][i]
       /\ queue[l][i].channel = identifier

\* C10, amended: the channel identifier given to connect never changes
\* and is in every send and receive event; a framed message carries time,
\* data, from and seq only, not the channel.
C10_ChannelIdentity ==
  /\ ChannelFixed
  /\ \A l \in Links : \A i \in 1..Len(queue[l]) :
       DOMAIN queue[l][i] = {"time", "data", "from", "seq"}

\* Channel 2: a frame was sent and received, and another one is in transit.
C10_Witness ==
  /\ identifier = 2
  /\ \E i \in 1..Len(log) : log[i].is_send
  /\ \E i \in 1..Len(log) : ~log[i].is_send
  /\ \E l \in Links : queue[l] # << >>

\* ------------------------------------------------------------------
\* The frames sent so far by worker s to worker t, in order.
RECURSIVE PushedOn(_, _, _)
PushedOn(q, s, t) ==
  IF q = << >> THEN << >>
  ELSE (IF Head(q).source = s /\ Head(q).target = t
          THEN << Head(q) >> ELSE << >>)
       \o PushedOn(Tail(q), s, t)

\* C11 as stated: the sequence numbers of one source on the channel are
\* distinct: no two frames, and no two send events, of the same (source,
\* channel) carry the same sequence number, for every contract.
C11_UniquePerSource ==
  /\ \A i \in 1..Len(pushed) : \A j \in 1..Len(pushed) :
       (i # j /\ pushed[i].source = pushed[j].source) =>
         pushed[i].seq # pushed[j].seq
  /\ \A i \in 1..Len(log) : \A j \in 1..Len(log) :
       (i # j /\ log[i].is_send /\ log[j].is_send
          /\ log[i].source = log[j].source /\ log[i].channel = log[j].channel) =>
         log[i].seq_no # log[j].seq_no

\* C11, amended: the sequence numbers a source assigns start at 0 and
\* increase by one per send wrapper, that is per (source, target, channel):
\* the frames of one source to one target are numbered 0, 1, 2, ... and no
\* two frames or send events of the same (source, target, channel) carry
\* the same number; frames of one source to different targets of an
\* exchange are numbered independently.
C11_SeqPerWrapper ==
  /\ \A l \in Links :
       \A k \in 1..Len(PushedOn(pushed, l[1], l[2])) :
         PushedOn(pushed, l[1], l[2])[k].seq = k - 1
  /\ \A i \in 1..Len(log) : \A j \in 1..Len(log) :
       (i < j /\ log[i].is_send /\ log[j].is_send
          /\ log[i].source = log[j].source /\ log[i].target = log[j].target
          /\ log[i].channel = log[j].channel) =>
         log[i].seq_no < log[j].seq_no
  /\ \A i \in 1..Len(log) :
       log[i].is_send =>
         (log[i].seq_no = 0 \/
            \E j \in 1..(i - 1) :
              /\ log[j].is_send
              /\ log[j].source = log[i].source
              /\ log[j].target = log[i].target
              /\ log[j].seq_no = log[i].seq_no - 1)

\* Hash-Exchange with two workers: one source has sent two frames to the
\* same target.
C11_Witness ==
  /\ contract = "Exchange"
  /\ peers = 2
  /\ \E l \in Links : Len(PushedOn(pushed, l[1], l[2])) = 2

\* ------------------------------------------------------------------
\* Ownership: the callers push batches of records that occur in no other
\* pushed batch (the n-th push holds records of (n-1)*MaxLen .. n*MaxLen-1),
\* so that the places a batch is in can be read off the state.
OwnContents ==
  { [i \in 1..n |-> Len(pushed) * MaxLen + i - 1] : n \in 1..MaxLen }

OwnPush ==
  /\ Len(pushed) < MaxPush
  /\ \E s \in Workers, time \in Times, data \in OwnContents,
        reuse \in BOOLEAN, h \in 0..MaxHash :
       Push(s, time, data, reuse, h)

OwnNext ==
  \/ OwnPush
  \/ \E s \in Workers : Flush(s)
  \/ \E w \in Workers, s \in Workers : PullFrame(w, s)
  \/ \E w \in Workers : PullEmpty(w)
  \/ \E w \in Workers : CallerTake(w)
  \/ \E w \in Workers : CallerDrain(w)

OwnSpec == Init /\ [][OwnNext]_vars

\* x (a frame or a slot value) holds records of the i-th pushed batch.
HoldsBatch(x, i) ==
  \E k \in 1..Len(x.data) :
    (i - 1) * MaxLen <= x.data[k] /\ x.data[k] < i * MaxLen

InQueues(i) ==
  Cardinality({ x \in Links \X (1..Len(pushed)) :
                  x[2] <= Len(queue[x[1]]) /\ HoldsBatch(queue[x[1]][x[2]], i) })
InHeldSlots(i) ==
  Cardinality({ w \in Workers :
                  puller[w].current # None /\ HoldsBatch(Unwrap(puller[w].current), i) })
InSwapSlots(i) ==
  Cardinality({ x \in Workers \X (1..Len(pushed)) :
                  x[2] <= Len(recycle[x[1]]) /\ HoldsBatch(recycle[x[1]][x[2]], i) })
InProducerSlots(i) ==
  Cardinality({ w \in Workers :
                  pair[w] # None /\ HoldsBatch(Unwrap(pair[w]), i) })
Places(i) == InQueues(i) + InHeldSlots(i) + InSwapSlots(i) + InProducerSlots(i)

\* The pulls that unwrapped a frame of the i-th pushed batch.
Unwrappings(i) ==
  Cardinality({ x \in PullSlots :
                  pulled[x[1]][x[2]] # None /\ HoldsBatch(Unwrap(pulled[x[1]][x[2]]), i) })

\* A step of a caller on a slot it owns: the caller of pull takes or
\* drains the held value, or the pushing caller reuses its slot.
CallerStep ==
  \/ pulled' = pulled /\ puller' # puller
  \/ pair' # pair

\* C12: exclusive batch ownership. In every reachable state each pushed
\* batch is in at most one place (a frame in a raw queue, the held slot of
\* a receive wrapper, the swap slot of a raw endpoint, a producer's slot),
\* in exactly one until a caller consumes it: it is in one raw queue until
\* the pull that unwraps its frame, which happens at most once, and it
\* leaves its last place only by a step of the caller that owns the slot.
C12_ExclusiveOwnership ==
  /\ [](\A i \in 1..Len(pushed) :
          /\ Places(i) <= 1
          /\ Unwrappings(i) <= 1
          /\ InQueues(i) = 1 - Unwrappings(i))
  /\ [][\A i \in 1..Len(pushed) :
          (Places(i) = 1 /\ Places(i)' = 0) => CallerStep]_vars

\* A batch was pushed, pulled, left in the held slot, swapped back into
\* the raw endpoint and handed back to a producer's slot, while another
\* batch is held by a receive wrapper.
C12_Witness ==
  /\ Len(pushed) = 2
  /\ InProducerSlots(1) = 1
  /\ InHeldSlots(2) = 1

\* ------------------------------------------------------------------
\* The destination of (time, data) under the hash function of TimeExchange.
TimeHashDest(time, data) == hash_func[<< time, data >>] % peers

\* C13: Time-And-Data Hash-Exchange routing. With N workers, every value
\* pushed with time t and data d is sent to, and returned only by the
\* receive endpoint of, worker hash(t, d) mod N, so equal (t, d) reach the
\* same worker (the same d at another time may reach another one, see the
\* witness); records are conserved at every time and frames are numbered
\* per send wrapper from 0, as for Hash-Exchange.
C13_TimeHashRouting ==
  contract = "TimeExchange" =>
    /\ \A i \in 1..Len(pushed) :
         /\ << pushed[i].time, pushed[i].data >> \in DOMAIN hash_func
         /\ pushed[i].target = TimeHashDest(pushed[i].time, pushed[i].data)
    /\ \A l \in Links : \A i \in 1..Len(queue[l]) :
         /\ << queue[l][i].time, queue[l][i].data >> \in DOMAIN hash_func
         /\ l[2] = TimeHashDest(queue[l][i].time, queue[l][i].data)
    /\ \A x \in PullSlots :
         pulled[x[1]][x[2]] # None =>
           /\ << Unwrap(pulled[x[1]][x[2]]).time,
                 Unwrap(pulled[x[1]][x[2]]).data >> \in DOMAIN hash_func
           /\ x[1] = TimeHashDest(Unwrap(pulled[x[1]][x[2]]).time,
                                  Unwrap(pulled[x[1]][x[2]]).data)
    /\ \A T \in Times : PulledAt(T) + InTransitAt(T) = PushedAt(T)
    /\ \A i \in 1..Len(pushed) :
         pushed[i].seq =
           Cardinality({ j \in 1..(i - 1) :
                           /\ pushed[j].source = pushed[i].source
                           /\ pushed[j].target = pushed[i].target })

\* Two workers: the same data pushed at two times reached two different
\* workers, and both values were returned by pulls.
C13_Witness ==
  /\ contract = "TimeExchange"
  /\ peers = 2
  /\ Len(pushed) = 2
  /\ pushed[1].data = pushed[2].data
  /\ pushed[1].time # pushed[2].time
  /\ pushed[1].target # pushed[2].target
  /\ IsDelivered(1)
  /\ IsDelivered(2)

\* ------------------------------------------------------------------
SingleWorkerExchange == peers = 1 /\ contract # "Pipeline"

\* With one worker: every batch is routed to worker 0, no pushed value is
\* returned twice or altered, and push and pull are never blocked: a push
\* can be made, and a pull can be made whether or not a frame is there.
SingleWorkerSafe ==
  /\ \A i \in 1..Len(pushed) : pushed[i].target = 0
  /\ AtMostOnce
  /\ Len(pushed) < MaxPush =>
       ENABLED (\E time \in Times, data \in Contents, h \in 0..MaxHash :
                  Push(0, time, data, FALSE, h))
  /\ queue[<< 0, 0 >>] # << >> => ENABLED PullFrame(0, 0)
  /\ (queue[<< 0, 0 >>] = << >> /\ EmptyPulls < MaxPull) => ENABLED PullEmpty(0)

\* C14: degenerate single-worker exchange. With N = 1 the Hash-Exchange
\* and Time-And-Data Hash-Exchange contracts route every pushed batch to
\* destination 0 whatever the hash function returns, no push or pull is
\* ever blocked, and every pushed batch is eventually returned by a pull,
\* exactly once and whole.
C14_SingleWorker ==
  /\ [](SingleWorkerExchange => SingleWorkerSafe)
  /\ []<>(SingleWorkerExchange => AllDelivered)

\* One worker, a hash value that is not 0, and two batches returned.
C14_Witness ==
  /\ SingleWorkerExchange
  /\ \E k \in DOMAIN hash_func : hash_func[k] # 0
  /\ Len(pushed) = 2
  /\ AllDelivered

\* ------------------------------------------------------------------
\* The pulls of worker w that returned a value.
FoundPulls(w) ==
  Cardinality({ k \in 1..(Len(pushed) + MaxPull) :
                  k <= Len(pulled[w]) /\ pulled[w][k] # None })

\* The frames pushed to worker w, and those of them still queued.
PushedTo(w) == Cardinality({ i \in 1..Len(pushed) : pushed[i].target = w })
QueuedTo(w) ==
  SumOver([s \in Workers |->
             IF << s, w >> \in Links THEN Len(queue[<< s, w >>]) ELSE 0],
          Workers)

\* A step in which worker w makes a pull.
PullStep(w) == Len(pulled[w])' = Len(pulled[w]) + 1

\* The frame made of the value worker w still holds.
HeldFrame(w) ==
  Message(Unwrap(puller[w].current).time, Unwrap(puller[w].current).data,
          puller[w].index, puller[w].counter)

\* A pull by worker w that hands back the value still held: the value goes
\* to the raw endpoint as a frame, no queue gets a frame, and the log gets
\* the receive event of the frame found, if one was found, and nothing else.
HandsBack(w) ==
  /\ recycle'[w] = Append(recycle[w], HeldFrame(w))
  /\ \A l \in Links : Len(queue[l])' <= Len(queue[l])
  /\ pulled[w]'[Len(pulled[w]) + 1] = None => log' = log
  /\ pulled[w]'[Len(pulled[w]) + 1] # None =>
       /\ Len(log') = Len(log) + 1
       /\ log'[Len(log')].seq_no = Unwrap(pulled[w]'[Len(pulled[w]) + 1]).seq
       /\ log'[Len(log')].source = Unwrap(pulled[w]'[Len(pulled[w]) + 1]).from

\* C15: a buffer handed back by the receiver is never delivered again. A
\* pull made while the held slot still has a (time, batch) wraps it as a
\* frame and swaps it into the raw endpoint; it is not returned by a later
\* pull of any worker, logs no receive event and does not count as a
\* received batch: each worker's pulls that return a value, and its
\* receive events, are as many as the frames pushed to it and not queued.
C15_NoRedelivery ==
  /\ [](\A w \in Workers :
          /\ FoundPulls(w) + QueuedTo(w) = PushedTo(w)
          /\ Len(RecvEvents(log, w)) = FoundPulls(w))
  /\ [][\A w \in Workers :
          (PullStep(w) /\ puller[w].current # None) => HandsBack(w)]_vars

\* Worker w returned a frame with its first pull, handed that batch back
\* whole with its second pull, which returned another frame, and made a
\* third pull; the batch handed back is with the raw endpoint.
C15_Witness ==
  \E w \in Workers :
    /\ Len(pulled[w]) = 3
    /\ pulled[w][1] # None
    /\ pulled[w][2] # None
    /\ pulled[w][3] = None
    /\ recycle[w] # << >>
    /\ Head(recycle[w]).seq = 1
    /\ Head(recycle[w]).data = Unwrap(pulled[w][1]).data
    /\ Head(recycle[w]).data # << >>

\* ------------------------------------------------------------------
\* A step that pushes a present value: the history of pushes grows.
PushStep == Len(pushed') = Len(pushed) + 1

\* The link of the push made by a PushStep.
PushLink == << pushed'[Len(pushed')].source, pushed'[Len(pushed')].target >>

\* The frame the raw endpoint of link l leaves in the message slot in this
\* step: the one it takes out of what the receiver handed back, if any.
LeftBy(l) ==
  IF recycle'[l[2]] # recycle[l[2]] THEN Some(Head(recycle[l[2]])) ELSE None

\* C16: caller slot after push. After a push of a present value the
\* caller's slot has exactly the (time, batch) of the frame the raw
\* endpoint left in the message slot, and is empty if it left none; the
\* source and sequence number of that frame are not in the slot, and the
\* wrapper's counter is one more than before in both cases.
C16_CallerSlotAfterPush ==
  [][PushStep =>
       /\ LeftBy(PushLink) = None => pair'[PushLink[1]] = None
       /\ LeftBy(PushLink) # None =>
            /\ pair'[PushLink[1]] # None
            /\ DOMAIN Unwrap(pair'[PushLink[1]]) = { "time", "data" }
            /\ Unwrap(pair'[PushLink[1]]).time = Unwrap(LeftBy(PushLink)).time
            /\ Unwrap(pair'[PushLink[1]]).data = Unwrap(LeftBy(PushLink)).data
       /\ pusher'[PushLink].counter = pusher[PushLink].counter + 1
       /\ \A l \in Links \ { PushLink } : pusher'[l] = pusher[l]]_vars

\* Two workers: the last push of worker 0 got back a batch with records
\* that a receiver had handed back, the last push of worker 1 got nothing.
C16_Witness ==
  /\ peers = 2
  /\ Len(pushed) = 2
  /\ pushed[1].source # pushed[2].source
  /\ pair[0] # None
  /\ Unwrap(pair[0]).data # << >>
  /\ pair[1] = None

\* ------------------------------------------------------------------
\* What the pull of worker w made in this step returned.
PullResult(w) == pulled[w]'[Len(pulled[w]) + 1]

\* Some frame has arrived at the raw receive endpoint of worker w.
Arrived(w) == \E s \in Workers : << s, w >> \in Links /\ queue[<< s, w >>] # << >>

\* The pull of this step took the first frame queued on link l and returned
\* its time and batch.
TookFrom(l) ==
  /\ queue[l] # << >>
  /\ queue'[l] = Tail(queue[l])
  /\ Unwrap(PullResult(l[2])).time = Head(queue[l]).time
  /\ Unwrap(PullResult(l[2])).data = Head(queue[l]).data
  /\ puller'[l[2]].current =
       Some([time |-> Head(queue[l]).time, data |-> Head(queue[l]).data])

\* C17: non-blocking empty pull. A pull made when the raw endpoint holds no
\* frame is a step like any other: it leaves the held slot empty, even if
\* it was not before, logs nothing and removes no frame. A pull made when a
\* frame has arrived returns the time and batch of a frame that arrived,
\* whatever the pulls before it returned, so no frame is lost to an empty
\* result.
C17_EmptyPull ==
  /\ [][\A w \in Workers :
          PullStep(w) =>
            /\ puller'[w].counter = puller[w].counter + 1
            /\ PullResult(w) = None =>
                 /\ puller'[w].current = None
                 /\ log' = log
                 /\ queue' = queue
            /\ Arrived(w) =>
                 /\ PullResult(w) # None
                 /\ \E s \in Workers :
                      << s, w >> \in Links /\ TookFrom(<< s, w >>)]_vars
  /\ [](\A w \in Workers : FoundPulls(w) + QueuedTo(w) = PushedTo(w))

\* Worker w returned a batch, made a pull that found nothing while it still
\* held that batch (the batch went to the raw endpoint for reuse), and
\* with its next pull returned a frame that arrived after the empty pull.
C17_Witness ==
  \E w \in Workers :
    /\ Len(pulled[w]) = 3
    /\ pulled[w][1] # None
    /\ pulled[w][2] = None
    /\ pulled[w][3] # None
    /\ \E k \in 1..Len(recycle[w]) :
         recycle[w][k].seq = 1 /\ recycle[w][k].data # << >>
    /\ puller[w].current = Some([time |-> Unwrap(pulled[w][3]).time,
                                 data |-> Unwrap(pulled[w][3]).data])

\* ------------------------------------------------------------------
\* The send wrappers connect made on worker w: their targets.
WrapperTargets(w) == { l[2] : l \in { k \in DOMAIN pusher : k[1] = w } }

\* C18: endpoint stamping at connect. On worker w, Pipeline makes one send
\* wrapper with source = target = w; Exchange and TimeExchange make N send
\* wrappers, the i-th with source = w and target = i; each worker has one
\* receive wrapper with index = w. All carry the channel identifier given
\* to connect, their counters start at 0 (and count the pushes and pulls
\* made since), and source, target and index are the same in every state.
C18_EndpointStamping ==
  /\ DOMAIN puller = Workers
  /\ \A w \in Workers :
       /\ WrapperTargets(w) = IF contract = "Pipeline" THEN { w } ELSE 0..(peers - 1)
       /\ puller[w].index = w
       /\ puller[w].channel = identifier
       /\ puller[w].counter = Len(pulled[w])
  /\ \A l \in DOMAIN pusher :
       /\ pusher[l].source = l[1]
       /\ pusher[l].target = l[2]
       /\ pusher[l].channel = identifier
       /\ pusher[l].counter =
            Cardinality({ i \in 1..Len(pushed) :
                            pushed[i].source = l[1] /\ pushed[i].target = l[2] })

\* Two workers under Exchange, a channel identifier that is no worker's
\* index, and wrappers that have been used: worker 0 pushed to worker 1
\* twice and worker 1 made two pulls.
C18_Witness ==
  /\ contract = "Exchange"
  /\ peers = 2
  /\ identifier = 2
  /\ pusher[<< 0, 1 >>].counter = 2
  /\ pusher[<< 0, 0 >>].counter = 0
  /\ puller[1].counter = 2
  /\ puller[0].counter = 0

\* ------------------------------------------------------------------
\* The positions of the send events and of the receive events in the log.
SendPositions == { i \in 1..Len(log) : log[i].is_send }
RecvPositions == { j \in 1..Len(log) : ~log[j].is_send }

\* The send event at position i is the one of the frame whose receive
\* event is at position j.
Matches(i, j) ==
  /\ i < j
  /\ log[i].channel = log[j].channel
  /\ log[i].source = log[j].source
  /\ log[i].target = log[j].target
  /\ log[i].seq_no = log[j].seq_no
  /\ log[i].length = log[j].length

\* C19: send-before-receive telemetry correspondence. Each receive event
\* in the log has before it a send event with the same channel, source,
\* target, seq_no and length; no send event is matched by two receive
\* events; and the receive events are never more than the send events.
C19_SendBeforeReceive ==
  /\ \A j \in RecvPositions : \E i \in SendPositions : Matches(i, j)
  /\ \A i \in SendPositions :
       Cardinality({ j \in RecvPositions : Matches(i, j) }) <= 1
  /\ Cardinality(RecvPositions) <= Cardinality(SendPositions)

\* Two frames of one wrapper, sent by worker 0 to worker 1, were both
\* received: the log has their two send events and two receive events.
C19_Witness ==
  /\ Cardinality(RecvPositions) = 2
  /\ \A j \in RecvPositions : log[j].source = 0 /\ log[j].target = 1
  /\ \E j \in RecvPositions : log[j].seq_no = 1 /\ log[j].length = 2

\* ------------------------------------------------------------------
\* The workers at which the data d, pushed at time t, has been seen: as
\* the target of a push, and as the worker whose pull returned it.
SeenAt(t, d) ==
  { pushed[i].target :
      i \in { k \in 1..Len(pushed) : pushed[k].time = t /\ pushed[k].data = d } }
  \cup { x[1] : x \in { y \in PullSlots :
                          /\ pulled[y[1]][y[2]] # None
                          /\ Unwrap(pulled[y[1]][y[2]]).time = t
                          /\ Unwrap(pulled[y[1]][y[2]]).data = d } }

\* C20: timestamp-independence of Hash-Exchange routing. Under Exchange
\* the destination of pushed data depends on the data and N only: the same
\* data pushed at two times, by the same or by two senders (two copies of
\* the channel that share the hash function), is sent to and returned by
\* the same single worker.
C20_TimeIndependence ==
  contract = "Exchange" =>
    \A d \in Contents : \A t1 \in Times, t2 \in Times :
      Cardinality(SeenAt(t1, d) \cup SeenAt(t2, d)) <= 1

\* Two workers: the two senders pushed the same data at different times,
\* both batches went to worker 1 and both were returned by its pulls.
C20_Witness ==
  /\ contract = "Exchange"
  /\ peers = 2
  /\ Len(pushed) = 2
  /\ pushed[1].source # pushed[2].source
  /\ pushed[1].data = pushed[2].data
  /\ pushed[1].time # pushed[2].time
  /\ SeenAt(pushed[1].time, pushed[1].data) = { 1 }
  /\ SeenAt(pushed[2].time, pushed[2].data) = { 1 }
  /\ Len(pulled[1]) = 2
  /\ pulled[1][1] # None
  /\ pulled[1][2] # None

====
